---- MODULE Spec2Model ----
(***************************************************************************)
(* Model of src/main.py: build_inverted_index (a loop over the corpus that *)
(* deduplicates documents, assigns ids and fills the inverted index) and   *)
(* search (TF-IDF scoring over the index and the document list).           *)
(*                                                                         *)
(* Strings are sequences of one-character strings.  The corpus             *)
(* data[stock_code][date] = news_list is held flattened, in iteration      *)
(* order, as a sequence of entries [stock_code, date, content]; the        *)
(* position of a document inside its news_list is recomputed by DocId.     *)
(* Scores are exact rationals in units of 1/(1000 * Scale), the natural    *)
(* logarithm being taken from a table of round(1000 * ln n).               *)
(***************************************************************************)
EXTENDS Integers, Sequences, FiniteSets, TLC

VARIABLES data, pos, index, documents, seen_docs, pc, query, results

vars == <<data, pos, index, documents, seen_docs, pc, query, results>>

\* ---------------------------------------------------------------- bounds
MaxDocs == 2         \* documents in the corpus

\* ---------------------------------------------------------------- inputs
SeqsUpTo(S, n) == UNION {[1..k -> S] : k \in 0..n}

\* stock codes (file names without .json) and dates, with and without '-'
StockCodes == {<<"A">>, <<"A", "-", "B">>}

Dates == {<<"C">>, <<"B", "-", "C">>}

\* document texts: empty, only a stop word, one word, a repeated word, two
\* words, a word and a stop word
Contents == {<<>>, <<"s">>, <<"x">>, <<"y">>, <<"x", "x">>, <<"x", "y">>,
             <<"x", "s">>}

\* queries: empty, only a stop word, one word, a repeated word, two words in
\* both orders, a repeated word around a stop word
Queries == {<<>>, <<"s">>, <<"x">>, <<"y">>, <<"x", "x">>, <<"x", "y">>,
            <<"y", "x">>, <<"x", "s", "x">>}

Entries == [stock_code : StockCodes, date : Dates, content : Contents]

\* ------------------------------------------------------------ preprocess
Stopwords == {<<"s">>}

\* jieba.cut with a dictionary of one-character words
Cut(text) == [i \in 1..Len(text) |-> <<text[i]>>]

\* token.strip() is empty
IsBlank(token) == \A i \in 1..Len(token) : token[i] = " "

RECURSIVE Filter(_)
Filter(tokens) ==
  IF tokens = <<>> THEN <<>>
  ELSE IF (~IsBlank(Head(tokens))) /\ Head(tokens) \notin Stopwords
       THEN <<Head(tokens)>> \o Filter(Tail(tokens))
       ELSE Filter(Tail(tokens))

preprocess(text) == Filter(Cut(text))

Range(s) == {s[i] : i \in 1..Len(s)}

\* --------------------------------------------------------------- corpus
SameGroup(a, b) == a.stock_code = b.stock_code /\ a.date = b.date

\* a dict has each key once: the entries of one stock, and of one date of a
\* stock, are contiguous in iteration order
ValidCorpus(d) ==
  \A i, j, k \in 1..Len(d) :
    (i < j /\ j < k) =>
      /\ (d[i].stock_code = d[k].stock_code => d[j].stock_code = d[k].stock_code)
      /\ (SameGroup(d[i], d[k]) => SameGroup(d[j], d[k]))

\* enumerate(news_list): 0-based position of entry i in its news_list
DocId(d, i) == Cardinality({j \in 1..(i - 1) : SameGroup(d[j], d[i])})

Digit(n) == CASE n = 0 -> "0" [] n = 1 -> "1" [] n = 2 -> "2" [] n = 3 -> "3"
              [] n = 4 -> "4" [] n = 5 -> "5" [] n = 6 -> "6" [] n = 7 -> "7"
              [] n = 8 -> "8" [] n = 9 -> "9"

RECURSIVE Str(_)
\* str(n) in decimal
Str(n) == IF n < 10 THEN <<Digit(n)>> ELSE Str(n \div 10) \o <<Digit(n % 10)>>

\* f"{stock_code}-{date}-{doc_id}"
FullDocId(stock_code, date, doc_id) ==
  stock_code \o <<"-">> \o date \o <<"-">> \o Str(doc_id)

\* ------------------------------------------------- build_inverted_index
\* the duplicate test left out
IsSeenNever(content, seen) == FALSE

\* content in seen_docs
IsSeen(content, seen) == content \in seen

\* the token list used without set()
AllTokens(tokens) == tokens

RECURSIVE UniqueTokens(_)
\* set(tokens), listed in order of first occurrence (the order in which the
\* set is iterated does not matter: each token has its own postings list)
UniqueTokens(tokens) ==
  IF tokens = <<>> THEN <<>>
  ELSE LET rest == UniqueTokens(SubSeq(tokens, 1, Len(tokens) - 1))
           last == tokens[Len(tokens)]
       IN  IF last \in Range(rest) THEN rest ELSE Append(rest, last)

\* index[token] of a defaultdict(list): a missing key is inserted with []
GetItem(ix, token) ==
  IF token \in DOMAIN ix THEN ix
  ELSE [t \in DOMAIN ix \cup {token} |-> IF t = token THEN <<>> ELSE ix[t]]

\* index[token].append(full_doc_id)
AppendPosting(ix, token, id) ==
  LET ix1 == GetItem(ix, token)
  IN  [ix1 EXCEPT ![token] = Append(@, id)]

RECURSIVE AddPostings(_, _, _)
\* for token in ...: index[token].append(full_doc_id)
AddPostings(ix, tokens, id) ==
  IF tokens = <<>> THEN ix
  ELSE AddPostings(AppendPosting(ix, Head(tokens), id), Tail(tokens), id)

EmptyIndex == [t \in {} |-> <<>>]

NoResult == [status |-> "none", pairs |-> <<>>]

Init ==
  /\ data \in {d \in SeqsUpTo(Entries, MaxDocs) : ValidCorpus(d)}
  /\ pos = 1
  /\ index = EmptyIndex
  /\ documents = <<>>
  /\ seen_docs = {}
  /\ pc = "build"
  /\ query = <<>>
  /\ results = NoResult

\* one iteration of the innermost loop of build_inverted_index
BuildStep ==
  /\ pc = "build"
  /\ pos <= Len(data)
  /\ LET content == data[pos].content
         full_doc_id == FullDocId(data[pos].stock_code, data[pos].date,
                                  DocId(data, pos))
     IN  IF IsSeen(content, seen_docs)
         THEN UNCHANGED <<index, documents, seen_docs>>
         ELSE /\ seen_docs' = seen_docs \cup {content}
              /\ documents' = Append(documents,
                                     [id |-> full_doc_id, content |-> content])
              /\ index' = AddPostings(index, UniqueTokens(preprocess(content)),
                                      full_doc_id)
  /\ pos' = pos + 1
  /\ UNCHANGED <<data, pc, query, results>>

\* return index, documents
BuildReturn ==
  /\ pc = "build"
  /\ pos > Len(data)
  /\ pc' = "ready"
  /\ UNCHANGED <<data, pos, index, documents, seen_docs, query, results>>

\* --------------------------------------------------------------- search
\* round(1000 * ln n) for n = 1..8
LnMilli == <<0, 693, 1099, 1386, 1609, 1792, 1946, 2079>>

\* 1000 * log(n / df)
Idf(n, df) == LnMilli[n] - LnMilli[df]

RECURSIVE Factorial(_)
Factorial(n) == IF n = 0 THEN 1 ELSE n * Factorial(n - 1)

MaxTokens == CHOOSE n \in 0..8 :
               /\ \E c \in Contents : Len(c) = n
               /\ \A c \in Contents : Len(c) <= n

\* every token count of a document divides Scale, so that
\* (token_count / total_tokens) * idf * Scale is an integer
Scale == Factorial(MaxTokens)

RECURSIVE Count(_, _)
\* str.count: non-overlapping occurrences of token in text, left to right
Count(text, token) ==
  IF Len(token) = 0 THEN Len(text) + 1
  ELSE IF Len(text) < Len(token) THEN 0
  ELSE IF SubSeq(text, 1, Len(token)) = token
       THEN 1 + Count(SubSeq(text, Len(token) + 1, Len(text)), token)
       ELSE Count(Tail(text), token)

\* next(doc[1] for doc in documents if doc[0] == full_doc_id): the position
\* of the first document with that id, 0 when there is none (StopIteration)
FirstMatch(docs, id) ==
  IF \E k \in 1..Len(docs) : docs[k].id = id
  THEN CHOOSE k \in 1..Len(docs) :
         /\ docs[k].id = id
         /\ \A j \in 1..(k - 1) : docs[j].id # id
  ELSE 0

\* doc_scores[full_doc_id] += v on a defaultdict(float), which keeps its keys
\* in insertion order
AddScore(scores, id, v) ==
  IF \E i \in 1..Len(scores) : scores[i].id = id
  THEN [i \in 1..Len(scores) |->
          IF scores[i].id = id
          THEN [id |-> id, score |-> scores[i].score + v]
          ELSE scores[i]]
  ELSE Append(scores, [id |-> id, score |-> 0 + v])

RECURSIVE ScorePostings(_, _, _, _, _)
\* for full_doc_id in index[token]: ... doc_scores[full_doc_id] += tf * idf
ScorePostings(st, token, postings, idf, docs) ==
  IF postings = <<>> \/ st.err # "" THEN st
  ELSE LET full_doc_id == Head(postings)
           k == FirstMatch(docs, full_doc_id)
       IN  IF k = 0 THEN [st EXCEPT !.err = "StopIteration"]
           ELSE LET doc_content == docs[k].content
                    token_count == Count(doc_content, token)
                    total_tokens == Len(preprocess(doc_content))
                IN  IF total_tokens = 0
                    THEN [st EXCEPT !.err = "ZeroDivisionError"]
                    ELSE ScorePostings(
                           [st EXCEPT !.scores =
                              AddScore(@, full_doc_id,
                                       (token_count * idf * Scale) \div total_tokens)],
                           token, Tail(postings), idf, docs)

\* the membership test left out: every query token is looked up
HasKeyAlways(ix, token) == TRUE

\* token in index
HasKey(ix, token) == token \in DOMAIN ix

\* the body of "for token in query_tokens"
ScoreToken(st, token, docs) ==
  IF st.err # "" \/ ~HasKey(st.ix, token) THEN st
  ELSE LET ix1 == GetItem(st.ix, token)
           st1 == [st EXCEPT !.ix = ix1]
           df == Len(ix1[token])
       IN  IF df = 0 THEN [st1 EXCEPT !.err = "ZeroDivisionError"]
           ELSE IF Len(docs) = 0 THEN [st1 EXCEPT !.err = "ValueError"]
           ELSE ScorePostings(st1, token, ix1[token], Idf(Len(docs), df), docs)

RECURSIVE ScoreTokens(_, _, _)
ScoreTokens(st, tokens, docs) ==
  IF tokens = <<>> THEN st
  ELSE ScoreTokens(ScoreToken(st, Head(tokens), docs), Tail(tokens), docs)

\* an ascending sort that is then reversed: an item goes before the items
\* of equal score
InsertSortedReversed(sorted, item) ==
  LET n == Cardinality({i \in 1..Len(sorted) : sorted[i].score > item.score})
  IN  SubSeq(sorted, 1, n) \o <<item>> \o SubSeq(sorted, n + 1, Len(sorted))

\* sorted(..., reverse=True) is stable: an item goes after every item whose
\* score is greater than or equal to its own
InsertSorted(sorted, item) ==
  LET n == Cardinality({i \in 1..Len(sorted) : sorted[i].score >= item.score})
  IN  SubSeq(sorted, 1, n) \o <<item>> \o SubSeq(sorted, n + 1, Len(sorted))

RECURSIVE Sorted(_)
\* insertion sort, the items taken in their original order
Sorted(items) ==
  IF items = <<>> THEN <<>>
  ELSE InsertSorted(Sorted(SubSeq(items, 1, Len(items) - 1)), items[Len(items)])

\* the query tokens reduced to the distinct ones
QueryTokensDistinct(q) == UniqueTokens(preprocess(q))

\* query_tokens = preprocess(query)
QueryTokens(q) == preprocess(q)

\* search(query, index, documents): the index as the call leaves it, and the
\* sequence returned or the exception raised
search(q, ix, docs) ==
  LET st == ScoreTokens([ix |-> ix, scores |-> <<>>, err |-> ""],
                        QueryTokens(q), docs)
  IN  [index |-> st.ix,
       results |-> IF st.err = ""
                   THEN [status |-> "ok", pairs |-> Sorted(st.scores)]
                   ELSE [status |-> st.err, pairs |-> <<>>]]

\* one pass of the query loop of the main program; an exception ends the
\* process
Search ==
  /\ pc = "ready"
  /\ \E q \in Queries :
       LET r == search(q, index, documents)
       IN  /\ query' = q
           /\ results' = r.results
           /\ index' = r.index
           /\ pc' = IF r.results.status = "ok" THEN "ready" ELSE "crashed"
  /\ UNCHANGED <<data, pos, documents, seen_docs>>

Next == BuildStep \/ BuildReturn \/ Search

Spec == Init /\ [][Next]_vars

\* ============================================================ properties
Searched == results.status # "none"

Returned == results.status = "ok"

Tokens(text) == Range(preprocess(text))

\* the documents whose content tokenizes to a sequence that contains t
DocsWith(t) == {i \in 1..Len(documents) : t \in Tokens(documents[i].content)}

\* C1: in every state of the build loop and after it, no two entries of the
\* document list have the same content; every content met so far in the
\* corpus has exactly one entry; and each token of a kept document has
\* exactly one posting per kept document that contains it.
C1_Dedup ==
  /\ \A i, j \in 1..Len(documents) :
       i # j => documents[i].content # documents[j].content
  /\ \A k \in 1..(pos - 1) :
       Cardinality({i \in 1..Len(documents) :
                      documents[i].content = data[k].content}) = 1
  /\ \A i \in 1..Len(documents) :
       \A t \in Tokens(documents[i].content) :
         /\ t \in DOMAIN index
         /\ Len(index[t]) = Cardinality(DocsWith(t))

\* a built corpus in which a content with tokens occurs in two different
\* entity/date groups
C1_Witness ==
  /\ pc = "ready"
  /\ \E i, j \in 1..Len(data) :
       /\ i < j
       /\ data[i].content = data[j].content
       /\ ~SameGroup(data[i], data[j])
       /\ Tokens(data[i].content) # {}

\* C2: no id occurs twice in the document list, also for stock codes and
\* dates that contain '-'.
C2_UniqueIds ==
  \A i, j \in 1..Len(documents) : i # j => documents[i].id # documents[j].id

\* C3: every id in the postings list of a token t is in the document list,
\* and the content found for that id tokenizes to a sequence containing t.
C3_PostingsSound ==
  pc # "build" =>
    \A t \in DOMAIN index : \A p \in 1..Len(index[t]) :
      LET k == FirstMatch(documents, index[t][p])
      IN  k # 0 /\ t \in Tokens(documents[k].content)

\* C4: an id occurs at most once in a token's postings list.
C4_PostingOnce ==
  pc # "build" =>
    \A t \in DOMAIN index : \A p, r \in 1..Len(index[t]) :
      p # r => index[t][p] # index[t][r]

\* the ids in the postings lists of the query tokens that are index keys
Candidates ==
  UNION {Range(index[t]) : t \in Tokens(query) \cap DOMAIN index}

ResultIds == {results.pairs[i].id : i \in 1..Len(results.pairs)}

\* C5: a search returns exactly one pair for each id in the postings list
\* of a query token that is an index key, and no other pair.
C5_ResultIds ==
  Searched =>
    /\ Returned
    /\ ResultIds = Candidates
    /\ Len(results.pairs) = Cardinality(Candidates)

\* the places <<k, p>> where scoring meets id: query token k, posting p
Discovery(id) ==
  {<<k, p>> \in (1..Len(preprocess(query))) \X (1..Len(documents)) :
     LET t == preprocess(query)[k]
     IN  t \in DOMAIN index /\ p <= Len(index[t]) /\ index[t][p] = id}

LexLess(a, b) == a[1] < b[1] \/ (a[1] = b[1] /\ a[2] < b[2])

DiscoveredBefore(id1, id2) ==
  \E a \in Discovery(id1) : \A b \in Discovery(id2) : LexLess(a, b)

\* C6: the returned sequence is in descending order of score, and two
\* documents of equal score are in the order of their first discovery.
C6_SortedStable ==
  Returned =>
    \A i, j \in 1..Len(results.pairs) :
      i < j =>
        /\ results.pairs[i].score >= results.pairs[j].score
        /\ (results.pairs[i].score = results.pairs[j].score =>
              DiscoveredBefore(results.pairs[i].id, results.pairs[j].id))

\* two documents returned with the same positive score
C6_Witness ==
  /\ Returned
  /\ Len(results.pairs) = 2
  /\ results.pairs[1].score = results.pairs[2].score
  /\ results.pairs[1].score > 0

\* the scores that scoring the token sequence gives
ScoresOf(tokens) ==
  ScoreTokens([ix |-> index, scores |-> <<>>, err |-> ""], tokens, documents).scores

ScoreIn(scores, id) ==
  IF \E i \in 1..Len(scores) : scores[i].id = id
  THEN (CHOOSE r \in Range(scores) : r.id = id).score
  ELSE 0

Occurrences(t, tokens) == Cardinality({k \in 1..Len(tokens) : tokens[k] = t})

RECURSIVE WeightedSum(_, _, _)
\* the sum over the listed tokens t of
\* (occurrences of t in all) * (score of id for the query <<t>>)
WeightedSum(distinct, all, id) ==
  IF distinct = <<>> THEN 0
  ELSE Occurrences(Head(distinct), all) * ScoreIn(ScoresOf(<<Head(distinct)>>), id)
       + WeightedSum(Tail(distinct), all, id)

\* C7 as stated: every returned score is the score of the query in which
\* each token occurs once.
C7_DistinctOnce ==
  Returned =>
    \A i \in 1..Len(results.pairs) :
      results.pairs[i].score =
        ScoreIn(ScoresOf(UniqueTokens(preprocess(query))), results.pairs[i].id)

\* C7 amended: tf * idf of a token is added once per occurrence of the token
\* in the tokenized query, so a returned score is the sum over the distinct
\* query tokens of (occurrences in the query) * (score for that token alone).
C7_PerOccurrence ==
  Returned =>
    \A i \in 1..Len(results.pairs) :
      results.pairs[i].score =
        WeightedSum(UniqueTokens(preprocess(query)), preprocess(query),
                    results.pairs[i].id)

\* a returned positive score for a query that repeats a token
C7_Witness ==
  /\ Returned
  /\ \E t \in Tokens(query) : Occurrences(t, preprocess(query)) > 1
  /\ \E i \in 1..Len(results.pairs) : results.pairs[i].score > 0

\* C8: search completes for every query; each posting's id is found in the
\* document list, the tf denominator is at least 1 and df is at least 1.
C8_NeverFails ==
  /\ Searched => Returned
  /\ pc # "build" =>
       \A t \in DOMAIN index :
         /\ Len(index[t]) >= 1
         /\ \A p \in 1..Len(index[t]) :
              LET k == FirstMatch(documents, index[t][p])
              IN  k # 0 /\ Len(preprocess(documents[k].content)) >= 1

\* C9: no search changes the index or the document list.
C9_ReadOnly ==
  [][pc = "ready" => (index' = index /\ documents' = documents)]_vars

\* a search has returned for a query with a token that is no index key and
\* a token that is one
C9_Witness ==
  /\ Returned
  /\ \E t \in Tokens(query) : t \notin DOMAIN index
  /\ Len(results.pairs) > 0

====
